---- MODULE Spec2Model ----
(***************************************************************************)
(* Model of src/parser.py: the score-blob parser, the single-line match    *)
(* tokenizer, the sectioned single-line scan and the stateful multi-line   *)
(* scan.  Text is a sequence of one-character strings; the regular         *)
(* expressions of the source are operators over such sequences that follow *)
(* the matching order of Python's re module.                               *)
(***************************************************************************)
EXTENDS Integers, Sequences, FiniteSets, TLC

VARIABLES
    pc,               \* position of the running call
    blob, out,        \* parse_score_blob: argument, returned dict
    line, row,        \* parse_match_line: argument, returned dict or None
    doc, section_kind, pos, sec_label, wc_out,   \* parse_worldcup_txt
    season, lines, current_date, current_stage, current_section, rows
                      \* parse_champions_league_txt_file

vars == <<pc, blob, out, line, row, doc, section_kind, pos, sec_label, wc_out,
          season, lines, current_date, current_stage, current_section, rows>>

blobVars == <<blob, out>>
lineVars == <<line, row>>
wcVars   == <<doc, section_kind, pos, sec_label, wc_out>>
clVars   == <<season, lines, current_date, current_stage, current_section, rows>>

(***************************************************************************)
(* Python values.  None is the empty tuple, any other optional value v is  *)
(* the one-element tuple <<v>>.                                            *)
(***************************************************************************)
None == <<>>
Some(v) == <<v>>

(***************************************************************************)
(* Characters and character classes (\s, \d, [A-Za-z], \w of re).          *)
(***************************************************************************)
UpperCase == <<"A","B","C","D","E","F","G","H","I","J","K","L","M",
               "N","O","P","Q","R","S","T","U","V","W","X","Y","Z">>
LowerCase == <<"a","b","c","d","e","f","g","h","i","j","k","l","m",
               "n","o","p","q","r","s","t","u","v","w","x","y","z">>
DigitChars == <<"0","1","2","3","4","5","6","7","8","9">>

Range(f) == {f[i] : i \in DOMAIN f}

SpaceChars == {" ", "\t", "\n", "\r", "\f"}
Digits == Range(DigitChars)
Letters == Range(UpperCase) \cup Range(LowerCase)
Uppers == Range(UpperCase)

IsSpace(c) == c \in SpaceChars
IsDigit(c) == c \in Digits
IsAlpha(c) == c \in Letters
IsWord(c)  == c \in Letters \/ c \in Digits \/ c = "_"

\* str.lower() of one character, as re.I compares
ToLower(c) ==
    IF c \in Uppers
    THEN LowerCase[CHOOSE i \in DOMAIN UpperCase : UpperCase[i] = c]
    ELSE c

DigitVal(c) == (CHOOSE i \in DOMAIN DigitChars : DigitChars[i] = c) - 1

\* the character at index i, or "" outside the text
CharAt(s, i) == IF i >= 1 /\ i <= Len(s) THEN s[i] ELSE ""

\* int(s[lo..hi]) for a run of digits
RECURSIVE ParseInt(_, _, _)
ParseInt(s, lo, hi) ==
    IF lo > hi THEN 0 ELSE ParseInt(s, lo, hi - 1) * 10 + DigitVal(s[hi])

\* greedy \s*, \d*, \w* from index i: the index of the first character not taken
RECURSIVE SkipSpaces(_, _)
SkipSpaces(s, i) ==
    IF i <= Len(s) /\ IsSpace(s[i]) THEN SkipSpaces(s, i + 1) ELSE i

RECURSIVE SkipDigits(_, _)
SkipDigits(s, i) ==
    IF i <= Len(s) /\ IsDigit(s[i]) THEN SkipDigits(s, i + 1) ELSE i

RECURSIVE SkipWord(_, _)
SkipWord(s, i) ==
    IF i <= Len(s) /\ IsWord(s[i]) THEN SkipWord(s, i + 1) ELSE i

\* the last index of s[1..i] that is not whitespace (0 if none)
RECURSIVE RSkipSpaces(_, _)
RSkipSpaces(s, i) ==
    IF i >= 1 /\ IsSpace(s[i]) THEN RSkipSpaces(s, i - 1) ELSE i

\* str.strip(), str.rstrip()
strip(s) == SubSeq(s, SkipSpaces(s, 1), RSkipSpaces(s, Len(s)))
rstrip(s) == SubSeq(s, 1, RSkipSpaces(s, Len(s)))

\* the first index j >= i with s[j] = c, or 0
RECURSIVE FindChar(_, _, _)
FindChar(s, i, c) ==
    IF i > Len(s) THEN 0
    ELSE IF s[i] = c THEN i ELSE FindChar(s, i + 1, c)

\* s[i..] begins with pat
StartsAt(s, i, pat) ==
    /\ i >= 1
    /\ i + Len(pat) - 1 <= Len(s)
    /\ \A k \in 1..Len(pat) : s[i + k - 1] = pat[k]

\* str.startswith, the `in` operator on strings, str.find / str.rfind (1-based, 0 = -1)
startswith(s, pat) == StartsAt(s, 1, pat)
Contains(s, pat) == \E i \in 1..(Len(s) + 1) : StartsAt(s, i, pat)

RECURSIVE FindFrom(_, _, _)
FindFrom(s, i, pat) ==
    IF i + Len(pat) - 1 > Len(s) THEN 0
    ELSE IF StartsAt(s, i, pat) THEN i ELSE FindFrom(s, i + 1, pat)

RECURSIVE RFindFrom(_, _, _)
RFindFrom(s, i, pat) ==
    IF i < 1 THEN 0
    ELSE IF StartsAt(s, i, pat) THEN i ELSE RFindFrom(s, i - 1, pat)

rfind(s, pat) == RFindFrom(s, Len(s) - Len(pat) + 1, pat)

\* concatenation of a sequence of texts
RECURSIVE Cat(_)
Cat(ts) == IF ts = <<>> THEN <<>> ELSE Head(ts) \o Cat(Tail(ts))

\* all sequences over S of length at most n
SeqsUpTo(S, n) == UNION {[1..k -> S] : k \in 0..n}

(***************************************************************************)
(* 1) score_blob parsing                                                   *)
(***************************************************************************)

\* score_pair = (\d+)\s*-\s*(\d+) matched at index i: the index after the match, or 0
score_pair_end(s, i) ==
    IF ~IsDigit(CharAt(s, i)) THEN 0
    ELSE LET b == SkipSpaces(s, SkipDigits(s, i))
         IN  IF CharAt(s, b) # "-" THEN 0
             ELSE LET c == SkipSpaces(s, b + 1)
                  IN  IF ~IsDigit(CharAt(s, c)) THEN 0 ELSE SkipDigits(s, c)

\* the match object of score_pair at index i: span and int groups
score_pair_match(s, i) ==
    LET a == SkipDigits(s, i)
        e == score_pair_end(s, i)
        c == SkipSpaces(s, SkipSpaces(s, a) + 1)
    IN  [start |-> i, end |-> e,
         home |-> ParseInt(s, i, a - 1), away |-> ParseInt(s, c, e - 1)]

\* score_pair.finditer(s) from index i: the non-overlapping matches, left to right
RECURSIVE score_pair_finditer(_, _)
score_pair_finditer(s, i) ==
    IF i > Len(s) THEN <<>>
    ELSE IF score_pair_end(s, i) # 0
         THEN <<score_pair_match(s, i)>> \o score_pair_finditer(s, score_pair_end(s, i))
         ELSE score_pair_finditer(s, i + 1)

\* score_pair.search(s): the start of the first match, or 0
RECURSIVE score_pair_search(_, _)
score_pair_search(s, i) ==
    IF i > Len(s) THEN 0
    ELSE IF score_pair_end(s, i) # 0 THEN i ELSE score_pair_search(s, i + 1)

\* ht_paren = \(([^)]+)\) matched at index i: the index after the match, or 0
ht_paren_end(s, i) ==
    IF CharAt(s, i) # "(" THEN 0
    ELSE LET k == FindChar(s, i + 1, ")")
         IN  IF k >= i + 2 THEN k + 1 ELSE 0

\* ht_paren.search(s): the start of the first match, or 0
RECURSIVE ht_paren_search(_, _)
ht_paren_search(s, i) ==
    IF i > Len(s) THEN 0
    ELSE IF ht_paren_end(s, i) # 0 THEN i ELSE ht_paren_search(s, i + 1)

\* ht_paren.sub(" ", s) from index i: every match replaced by one space
RECURSIVE ht_paren_sub(_, _)
ht_paren_sub(s, i) ==
    IF i > Len(s) THEN <<>>
    ELSE IF ht_paren_end(s, i) # 0
         THEN <<" ">> \o ht_paren_sub(s, ht_paren_end(s, i))
         ELSE <<s[i]>> \o ht_paren_sub(s, i + 1)

\* \b at index p: between s[p-1] and s[p]
WordBoundary(s, p) == IsWord(CharAt(s, p - 1)) # IsWord(CharAt(s, p))

\* has_pen = \bpen\.?\b with re.I, matched at index i
has_pen_at(s, i) ==
    /\ WordBoundary(s, i)
    /\ ToLower(CharAt(s, i)) = "p"
    /\ ToLower(CharAt(s, i + 1)) = "e"
    /\ ToLower(CharAt(s, i + 2)) = "n"
    /\ \/ CharAt(s, i + 3) = "." /\ WordBoundary(s, i + 4)
       \/ WordBoundary(s, i + 3)

has_pen(s) == \E i \in 1..Len(s) : has_pen_at(s, i)

\* has_aet = \ba\.?e\.?t\.?\b with re.I, matched at index i
has_aet_at(s, i) ==
    /\ WordBoundary(s, i)
    /\ ToLower(CharAt(s, i)) = "a"
    /\ LET j == IF CharAt(s, i + 1) = "." THEN i + 2 ELSE i + 1
           k == IF CharAt(s, j + 1) = "." THEN j + 2 ELSE j + 1
       IN  /\ ToLower(CharAt(s, j)) = "e"
           /\ ToLower(CharAt(s, k)) = "t"
           /\ \/ CharAt(s, k + 1) = "." /\ WordBoundary(s, k + 2)
              \/ WordBoundary(s, k + 1)

has_aet(s) == \E i \in 1..Len(s) : has_aet_at(s, i)

\* the working text of parse_score_blob after the parentheses are taken out
blob_text(b0) ==
    IF ht_paren_search(b0, 1) # 0 THEN strip(ht_paren_sub(b0, 1)) ELSE b0

\* the int pairs of the working text: nums
blob_nums(b) ==
    LET ms == score_pair_finditer(b, 1)
    IN  [k \in DOMAIN ms |-> <<ms[k].home, ms[k].away>>]

\* the text saved from the first parenthesis, with the mutant that forgets to trim it
ht_raw_untrimmed(b0) ==
    LET m_ht == ht_paren_search(b0, 1)
    IN  IF m_ht # 0 THEN Some(SubSeq(b0, m_ht + 1, ht_paren_end(b0, m_ht) - 2)) ELSE None

\* out["ht_raw"] = m_ht.group(1).strip() if the search matched
ht_raw_of(b0) ==
    LET m_ht == ht_paren_search(b0, 1)
    IN  IF m_ht # 0
        THEN Some(strip(SubSeq(b0, m_ht + 1, ht_paren_end(b0, m_ht) - 2)))
        ELSE None

\* the mutant that drops a lone pair after a penalty marker
score_branch_discard(pen_flag, aet_flag, n) ==
    IF pen_flag THEN (IF n >= 2 THEN "pen" ELSE "none")
    ELSE IF aet_flag /\ n >= 1 THEN "aet"
    ELSE IF n >= 1 THEN "ft"
    ELSE "none"

\* the if / elif chain over the flags and len(nums)
score_branch(pen_flag, aet_flag, n) ==
    IF pen_flag /\ n >= 2 THEN "pen"
    ELSE IF aet_flag /\ n >= 1 THEN "aet"
    ELSE IF n >= 1 THEN "ft"
    ELSE "none"

parse_score_blob(bl) ==
    LET b0 == strip(bl)
        b == blob_text(b0)
        nums == blob_nums(b)
        branch == score_branch(has_pen(b), has_aet(b), Len(nums))
        pen == IF branch = "pen" THEN Some(nums[1]) ELSE None
        aet == IF branch = "pen" THEN Some(nums[2])
               ELSE IF branch = "aet" THEN Some(nums[1])
               ELSE None
        ft0 == IF branch = "ft" THEN Some(nums[1]) ELSE None
        \* supplement: FT empty and a.e.t. present -> store AET as FT
        ft == IF ft0 = None /\ aet # None THEN aet ELSE ft0
        fst(q) == IF q = None THEN None ELSE Some(q[1][1])
        snd(q) == IF q = None THEN None ELSE Some(q[1][2])
    IN  [ft_home |-> fst(ft), ft_away |-> snd(ft),
         aet_home |-> fst(aet), aet_away |-> snd(aet),
         pen_home |-> fst(pen), pen_away |-> snd(pen),
         ht_raw |-> ht_raw_of(b0)]

\* the dict parse_score_blob starts from
EmptyScore ==
    [ft_home |-> None, ft_away |-> None, aet_home |-> None, aet_away |-> None,
     pen_home |-> None, pen_away |-> None, ht_raw |-> None]

(***************************************************************************)
(* 2) Match line parsing                                                   *)
(***************************************************************************)

\* pre_head = ^\((?P<no>\d+)\)\s+(?P<dow>[A-Za-z]{3})\s+(?P<md>[A-Za-z]{3}/\d{1,2})\s+
\*            (?P<time>\d{1,2}:\d{2})\s+
\* pre_head.match(s): the groups and the index after the match, or ok = FALSE
pre_head_match(s) ==
    LET a == SkipDigits(s, 2)                   \* after (?P<no>\d+)
        b == SkipSpaces(s, a + 1)               \* start of dow
        c == SkipSpaces(s, b + 3)               \* start of md
        d == IF IsDigit(CharAt(s, c + 5)) THEN c + 6 ELSE c + 5   \* after md
        f == SkipSpaces(s, d)                   \* start of time
        g == IF IsDigit(CharAt(s, f + 1)) THEN f + 2 ELSE f + 1   \* the colon
        h == g + 3                              \* after time
        alpha3(i) == IsAlpha(CharAt(s, i)) /\ IsAlpha(CharAt(s, i + 1))
                     /\ IsAlpha(CharAt(s, i + 2))
        ok == /\ CharAt(s, 1) = "("
              /\ a > 2
              /\ CharAt(s, a) = ")"
              /\ b > a + 1
              /\ alpha3(b)
              /\ c > b + 3
              /\ alpha3(c)
              /\ CharAt(s, c + 3) = "/"
              /\ IsDigit(CharAt(s, c + 4))
              /\ f > d
              /\ IsDigit(CharAt(s, f))
              /\ CharAt(s, g) = ":"
              /\ IsDigit(CharAt(s, g + 1))
              /\ IsDigit(CharAt(s, g + 2))
              /\ IsSpace(CharAt(s, h))
    IN  IF ok
        THEN [ok |-> TRUE, no |-> SubSeq(s, 2, a - 1), dow |-> SubSeq(s, b, b + 2),
              md |-> SubSeq(s, c, d - 1), time |-> SubSeq(s, f, h - 1),
              end |-> SkipSpaces(s, h)]
        ELSE [ok |-> FALSE]

\* re.split(r"\s{2,}", s) scanning from index i, the current part starting at st
RECURSIVE split_ws2(_, _, _)
split_ws2(s, i, st) ==
    IF i > Len(s) THEN <<SubSeq(s, st, Len(s))>>
    ELSE IF SkipSpaces(s, i) - i >= 2
         THEN <<SubSeq(s, st, i - 1)>> \o split_ws2(s, SkipSpaces(s, i), SkipSpaces(s, i))
         ELSE split_ws2(s, i + 1, st)

\* re.sub(r"\s{2,}", " ", s) from index i
RECURSIVE sub_ws2(_, _)
sub_ws2(s, i) ==
    IF i > Len(s) THEN <<>>
    ELSE IF SkipSpaces(s, i) - i >= 2
         THEN <<" ">> \o sub_ws2(s, SkipSpaces(s, i))
         ELSE <<s[i]>> \o sub_ws2(s, i + 1)

\* " ".join(parts)
RECURSIVE join_sp(_)
join_sp(parts) ==
    IF parts = <<>> THEN <<>>
    ELSE IF Len(parts) = 1 THEN parts[1]
    ELSE parts[1] \o <<" ">> \o join_sp(Tail(parts))

AtSep == <<" ", "@", " ">>

(***************************************************************************)
(* parse_match_line, one operator per stretch of the body; each passes on  *)
(* the local variables the rest of the body reads.                         *)
(***************************************************************************)

\* the returned dict: venue split at the first comma, score fields merged in
pml_record(m, venue_raw, home, score_blob, away) ==
    LET comma == FindChar(venue_raw, 1, ",")
    IN  Some([match_no |-> ParseInt(m.no, 1, Len(m.no)),
              dow |-> m.dow,
              month_day |-> m.md,
              time_local |-> m.time,
              home |-> sub_ws2(home, 1),
              away |-> sub_ws2(away, 1),
              stadium |-> IF comma # 0 THEN strip(SubSeq(venue_raw, 1, comma - 1))
                          ELSE venue_raw,
              city |-> IF comma # 0
                       THEN Some(strip(SubSeq(venue_raw, comma + 1, Len(venue_raw))))
                       ELSE None,
              score_blob |-> score_blob] @@ parse_score_blob(score_blob))

\* score_blob and away: split at runs of two or more spaces, or, with a single
\* part, after the last score pair
pml_split(m, venue_raw, home, pre_at_tail, parts, last_end) ==
    IF Len(parts) = 1
    THEN pml_record(m, venue_raw, home,
                    strip(SubSeq(pre_at_tail, 1, last_end - 1)),
                    strip(SubSeq(pre_at_tail, last_end, Len(pre_at_tail))))
    ELSE pml_record(m, venue_raw, home,
                    strip(join_sp(SubSeq(parts, 1, Len(parts) - 1))),
                    strip(parts[Len(parts)]))

pml_last_sc(scs) == scs[Len(scs)].end

pml_tail(m, venue_raw, home, pre_at_tail) ==
    pml_split(m, venue_raw, home, pre_at_tail, split_ws2(pre_at_tail, 1, 1),
              pml_last_sc(score_pair_finditer(pre_at_tail, 1)))

\* home and pre_at_tail, around the start of the first score pair
pml_home(m, before_at, venue_raw, start) ==
    IF start = 0 THEN None
    ELSE pml_tail(m, venue_raw, strip(SubSeq(before_at, 1, start - 1)),
                  strip(SubSeq(before_at, start, Len(before_at))))

pml_score(m, before_at, venue_raw) ==
    pml_home(m, before_at, venue_raw, score_pair_search(before_at, 1))

\* before_at and venue_raw, around the last " @ "
pml_venue(m, rest, at_idx) ==
    IF at_idx = 0 THEN None
    ELSE pml_score(m, rstrip(SubSeq(rest, 1, at_idx - 1)),
                   strip(SubSeq(rest, at_idx + 3, Len(rest))))

pml_rest(m, rest) == pml_venue(m, rest, rfind(rest, AtSep))

pml_head(ln, m) ==
    IF ~m.ok THEN None ELSE pml_rest(m, rstrip(SubSeq(ln, m.end, Len(ln))))

parse_match_line(ln) == pml_head(ln, pre_head_match(ln))

(***************************************************************************)
(* 3) Section (group/knockout round) and match parsing                     *)
(***************************************************************************)

\* str.split() from index i: the maximal runs of non-whitespace
RECURSIVE split_words(_, _)
split_words(s, i) ==
    LET a == SkipSpaces(s, i)
        stops == {j \in a..Len(s) : IsSpace(s[j])}
        b == IF stops = {} THEN Len(s) + 1
             ELSE CHOOSE j \in stops : \A k \in stops : j <= k
    IN  IF a > Len(s) THEN <<>>
        ELSE <<SubSeq(s, a, b - 1)>> \o split_words(s, b)

GroupPrefix == <<"G","r","o","u","p"," ">>

KnockoutRounds ==
    { <<"R","o","u","n","d"," ","o","f"," ","1","6">>,
      <<"Q","u","a","r","t","e","r","-","f","i","n","a","l","s">>,
      <<"S","e","m","i","-","f","i","n","a","l","s">>,
      <<"M","a","t","c","h"," ","f","o","r"," ","t","h","i","r","d"," ",
        "p","l","a","c","e">>,
      <<"F","i","n","a","l">> }

\* the mutant that keeps the header line as it is
group_label_raw(ln) == ln

\* line.split()[0] + " " + line.split()[1]
group_label(ln) == split_words(ln, 1)[1] \o <<" ">> \o split_words(ln, 1)[2]

\* the line the loop body works on, and the branch it takes
wc_line == strip(doc[pos + 1])
wc_is_group_header == section_kind = "group" /\ startswith(wc_line, GroupPrefix)
wc_is_knockout_header == section_kind = "knockout" /\ wc_line \in KnockoutRounds

WCBlank ==
    /\ pc = "scan"
    /\ pos < Len(doc)
    /\ wc_line = <<>>
    /\ pos' = pos + 1
    /\ UNCHANGED <<pc, doc, section_kind, sec_label, wc_out, blobVars, lineVars, clVars>>

WCGroupHeader ==
    /\ pc = "scan"
    /\ pos < Len(doc)
    /\ wc_line # <<>>
    /\ wc_is_group_header
    /\ sec_label' = Some(group_label(wc_line))
    /\ pos' = pos + 1
    /\ UNCHANGED <<pc, doc, section_kind, wc_out, blobVars, lineVars, clVars>>

WCKnockoutHeader ==
    /\ pc = "scan"
    /\ pos < Len(doc)
    /\ wc_line # <<>>
    /\ ~wc_is_group_header
    /\ wc_is_knockout_header
    /\ sec_label' = Some(wc_line)
    /\ pos' = pos + 1
    /\ UNCHANGED <<pc, doc, section_kind, wc_out, blobVars, lineVars, clVars>>

WCMatchLine ==
    /\ pc = "scan"
    /\ pos < Len(doc)
    /\ wc_line # <<>>
    /\ ~wc_is_group_header
    /\ ~wc_is_knockout_header
    /\ parse_match_line(wc_line) # None
    /\ wc_out' = Append(wc_out,
            [section |-> sec_label,
             stage |-> IF section_kind = "group" THEN "Group" ELSE "Knockout"]
            @@ parse_match_line(wc_line)[1])
    /\ pos' = pos + 1
    /\ UNCHANGED <<pc, doc, section_kind, sec_label, blobVars, lineVars, clVars>>

WCOtherLine ==
    /\ pc = "scan"
    /\ pos < Len(doc)
    /\ wc_line # <<>>
    /\ ~wc_is_group_header
    /\ ~wc_is_knockout_header
    /\ parse_match_line(wc_line) = None
    /\ pos' = pos + 1
    /\ UNCHANGED <<pc, doc, section_kind, sec_label, wc_out, blobVars, lineVars, clVars>>

WCReturn ==
    /\ pc = "scan"
    /\ pos = Len(doc)
    /\ pc' = "done"
    /\ UNCHANGED <<blobVars, lineVars, wcVars, clVars>>

(***************************************************************************)
(* 4) Champions League text file                                           *)
(***************************************************************************)

MonthNames ==
    << <<"J","a","n">>, <<"F","e","b">>, <<"M","a","r">>, <<"A","p","r">>,
       <<"M","a","y">>, <<"J","u","n">>, <<"J","u","l">>, <<"A","u","g">>,
       <<"S","e","p">>, <<"O","c","t">>, <<"N","o","v">>, <<"D","e","c">> >>

\* mon_str in MONTH_MAP, MONTH_MAP[mon_str]
in_MONTH_MAP(mon_str) == \E i \in DOMAIN MonthNames : MonthNames[i] = mon_str
MONTH_MAP(mon_str) == CHOOSE i \in DOMAIN MonthNames : MonthNames[i] = mon_str

\* int(season.split("-")[0])
start_year_of(ssn) ==
    LET dash == FindChar(ssn, 1, "-")
    IN  ParseInt(ssn, 1, (IF dash = 0 THEN Len(ssn) ELSE dash - 1))

\* datetime.date(year, month, day) raises ValueError unless this holds
IsLeapYear(y) == y % 4 = 0 /\ (y % 100 # 0 \/ y % 400 = 0)
DaysInMonth(y, m) ==
    IF m = 2 THEN (IF IsLeapYear(y) THEN 29 ELSE 28)
    ELSE IF m \in {4, 6, 9, 11} THEN 30 ELSE 31
date_valid(y, m, d) ==
    /\ y >= 1 /\ y <= 9999
    /\ m >= 1 /\ m <= 12
    /\ d >= 1 /\ d <= DaysInMonth(y, m)

\* n written in decimal, zero-padded to w digits
RECURSIVE ZeroPad(_, _)
ZeroPad(n, w) ==
    IF w = 0 THEN <<>> ELSE ZeroPad(n \div 10, w - 1) \o <<DigitChars[(n % 10) + 1]>>

\* datetime.date.isoformat()
isoformat(d) ==
    ZeroPad(d.year, 4) \o <<"-">> \o ZeroPad(d.month, 2) \o <<"-">> \o ZeroPad(d.day, 2)

\* line.replace(glyph, "")
RECURSIVE remove_char(_, _)
remove_char(s, c) ==
    IF s = <<>> THEN <<>>
    ELSE IF Head(s) = c THEN remove_char(Tail(s), c)
    ELSE <<Head(s)>> \o remove_char(Tail(s), c)

SectionGlyph == "»"

K_Group   == <<"G","r","o","u","p">>
K_Roundof == <<"R","o","u","n","d"," ","o","f">>
K_Roundof16 == <<"R","o","u","n","d"," ","o","f"," ","1","6">>
K_Quarter == <<"Q","u","a","r","t","e","r">>
K_Quarterfinals == <<"Q","u","a","r","t","e","r","f","i","n","a","l","s">>
K_Semi    == <<"S","e","m","i">>
K_Semifinals == <<"S","e","m","i","f","i","n","a","l","s">>
K_Final   == <<"F","i","n","a","l">>

\* the mutant that tests "Final" before "Quarter" and "Semi"
stage_of_final_first(section) ==
    IF Contains(section, K_Group) THEN "Group Stage"
    ELSE IF Contains(section, K_Roundof16) \/ Contains(section, K_Roundof)
         THEN "Round of 16"
    ELSE IF Contains(section, K_Final) THEN "Final"
    ELSE IF Contains(section, K_Quarter) \/ Contains(section, K_Quarterfinals)
         THEN "Quarterfinals"
    ELSE IF Contains(section, K_Semi) \/ Contains(section, K_Semifinals)
         THEN "Semifinals"
    ELSE "Other"

\* the stage classification of a section header
stage_of(section) ==
    IF Contains(section, K_Group) THEN "Group Stage"
    ELSE IF Contains(section, K_Roundof16) \/ Contains(section, K_Roundof)
         THEN "Round of 16"
    ELSE IF Contains(section, K_Quarter) \/ Contains(section, K_Quarterfinals)
         THEN "Quarterfinals"
    ELSE IF Contains(section, K_Semi) \/ Contains(section, K_Semifinals)
         THEN "Semifinals"
    ELSE IF Contains(section, K_Final) THEN "Final"
    ELSE "Other"

\* date_match = re.match(r"^\s+(\w+)\s+(\w+)/(\d{1,2})(?:\s+(\d{4}))?", line)
date_match(s) ==
    LET a == SkipSpaces(s, 1)                  \* start of weekday
        b == SkipWord(s, a)                    \* after weekday
        c == SkipSpaces(s, b)                  \* start of mon_str
        d == SkipWord(s, c)                    \* the slash
        e == IF IsDigit(CharAt(s, d + 2)) THEN d + 3 ELSE d + 2   \* after day_str
        y == SkipSpaces(s, e)                  \* start of year_str
        has_year == /\ y > e
                    /\ \A k \in 0..3 : IsDigit(CharAt(s, y + k))
        ok == /\ a > 1
              /\ b > a
              /\ c > b
              /\ d > c
              /\ CharAt(s, d) = "/"
              /\ IsDigit(CharAt(s, d + 1))
    IN  IF ok
        THEN [ok |-> TRUE, weekday |-> SubSeq(s, a, b - 1), mon_str |-> SubSeq(s, c, d - 1),
              day_str |-> SubSeq(s, d + 1, e - 1),
              year_str |-> IF has_year THEN Some(SubSeq(s, y, y + 3)) ELSE None]
        ELSE [ok |-> FALSE]

\* the mutant that always takes the season's first year
infer_year_start(start_year, month) == start_year

\* the year of a date header: explicit, or inferred from the season
infer_year(start_year, month) ==
    IF month < 7 THEN start_year + 1 ELSE start_year

header_year(start_year, month, year_str) ==
    IF year_str # None THEN ParseInt(year_str[1], 1, Len(year_str[1]))
    ELSE infer_year(start_year, month)

\* the arguments of dt.date(year, month, day) for a matched date line
header_date(ssn, dm) ==
    [year |-> header_year(start_year_of(ssn), MONTH_MAP(dm.mon_str), dm.year_str),
     month |-> MONTH_MAP(dm.mon_str),
     day |-> ParseInt(dm.day_str, 1, Len(dm.day_str))]

(***************************************************************************)
(* match_line = re.match(                                                  *)
(*   ^\s+(?:(\d{1,2}\.\d{2})\s+)?(.+?)\s+v\s+(.+?)\s+(\d+)-(\d+)           *)
(*   (?:\s+\((\d+)-(\d+)\))?(?:\s+(.+))?$ , line)                          *)
(* Each quantifier takes the first choice, in its own order (greedy: the   *)
(* longest, lazy: the shortest), for which the rest of the pattern matches.*)
(***************************************************************************)
SetMax(S) == CHOOSE x \in S : \A y \in S : y <= x
SetMin(S) == CHOOSE x \in S : \A y \in S : x <= y

\* (?:\s+(.+))?$ at index x
ml_extra_ok(s, x) == x = Len(s) + 1 \/ (IsSpace(CharAt(s, x)) /\ x < Len(s))
ml_extra(s, x) ==
    IF x = Len(s) + 1 THEN None
    ELSE Some(SubSeq(s, (IF SkipSpaces(s, x) <= Len(s) THEN SkipSpaces(s, x) ELSE Len(s)),
                     Len(s)))

\* \s+\((\d+)-(\d+)\) at index b: the index after it, or 0
ml_ht_end(s, b) ==
    LET p == SkipSpaces(s, b)
        q == SkipDigits(s, p + 1)
        r == SkipDigits(s, q + 1)
    IN  IF /\ p > b
           /\ CharAt(s, p) = "("
           /\ q > p + 1
           /\ CharAt(s, q) = "-"
           /\ r > q + 1
           /\ CharAt(s, r) = ")"
        THEN r + 1 ELSE 0

ml_ht_used(s, b) == ml_ht_end(s, b) # 0 /\ ml_extra_ok(s, ml_ht_end(s, b))
ml_tail_ok(s, b) == ml_ht_used(s, b) \/ ml_extra_ok(s, b)

\* (\d+)-(\d+) at index g, followed by the tail
ml_goals_ok(s, g) ==
    LET a == SkipDigits(s, g)
        b == SkipDigits(s, a + 1)
    IN  a > g /\ CharAt(s, a) = "-" /\ b > a + 1 /\ ml_tail_ok(s, b)

\* (.+?)\s+ from index a: the ends e of the away segment the rest matches after
ml_away_ends(s, a) ==
    {e \in a..Len(s) : IsSpace(CharAt(s, e + 1)) /\ ml_goals_ok(s, SkipSpaces(s, e + 1))}

\* v\s+ with v at index pv: the starts of the away segment
ml_away_starts(s, pv) ==
    {a \in (pv + 2)..SkipSpaces(s, pv + 1) : ml_away_ends(s, a) # {}}

\* (.+?)\s+v from index h: the ends of the home segment
ml_home_ends(s, h) ==
    {e \in h..Len(s) : /\ IsSpace(CharAt(s, e + 1))
                       /\ CharAt(s, SkipSpaces(s, e + 1)) = "v"
                       /\ ml_away_starts(s, SkipSpaces(s, e + 1)) # {}}

\* (\d{1,2}\.\d{2}) at index p: the index after it, or 0
ml_time_end(s, p) ==
    LET t == IF IsDigit(CharAt(s, p + 1)) THEN p + 2 ELSE p + 1
    IN  IF /\ IsDigit(CharAt(s, p))
           /\ CharAt(s, t) = "."
           /\ IsDigit(CharAt(s, t + 1))
           /\ IsDigit(CharAt(s, t + 2))
        THEN t + 3 ELSE 0

\* the starts of the home segment after a time at index p
ml_home_starts_timed(s, p) ==
    IF ml_time_end(s, p) = 0 THEN {}
    ELSE {h \in (ml_time_end(s, p) + 1)..SkipSpaces(s, ml_time_end(s, p)) :
             ml_home_ends(s, h) # {}}

\* ^\s+ : the indexes the leading whitespace can end before
ml_starts(s) ==
    {p \in 2..SkipSpaces(s, 1) :
        ml_home_starts_timed(s, p) # {} \/ ml_home_ends(s, p) # {}}

match_line(s) ==
    IF ml_starts(s) = {} THEN [ok |-> FALSE] ELSE
    LET p == SetMax(ml_starts(s))
        timed == ml_home_starts_timed(s, p) # {}
        h == IF timed THEN SetMax(ml_home_starts_timed(s, p)) ELSE p
        he == SetMin(ml_home_ends(s, h))
        pv == SkipSpaces(s, he + 1)
        a == SetMax(ml_away_starts(s, pv))
        ae == SetMin(ml_away_ends(s, a))
        g == SkipSpaces(s, ae + 1)
        g2 == SkipDigits(s, g)
        b == SkipDigits(s, g2 + 1)
        ht == ml_ht_used(s, b)
        hp == SkipSpaces(s, b)
        hq == SkipDigits(s, hp + 1)
        x == IF ht THEN ml_ht_end(s, b) ELSE b
    IN  [ok |-> TRUE,
         time_str |-> IF timed THEN Some(SubSeq(s, p, ml_time_end(s, p) - 1)) ELSE None,
         home_part |-> SubSeq(s, h, he),
         away_part |-> SubSeq(s, a, ae),
         home_goals |-> SubSeq(s, g, g2 - 1),
         away_goals |-> SubSeq(s, g2 + 1, b - 1),
         ht_home |-> IF ht THEN Some(SubSeq(s, hp + 1, hq - 1)) ELSE None,
         ht_away |-> IF ht THEN Some(SubSeq(s, hq + 1, ml_ht_end(s, b) - 2)) ELSE None,
         extra |-> ml_extra(s, x)]

\* re.sub(r"\s*\([^)]+\)\s*$", "", part).strip()
country_at(s, i) ==
    LET j == SkipSpaces(s, i)
        k == FindChar(s, j + 1, ")")
    IN  CharAt(s, j) = "(" /\ k >= j + 2 /\ SkipSpaces(s, k + 1) > Len(s)

strip_country(s) ==
    LET hits == {i \in 1..Len(s) : country_at(s, i)}
    IN  strip(IF hits = {} THEN s ELSE SubSeq(s, 1, SetMin(hits) - 1))

int_of(digits) == ParseInt(digits, 1, Len(digits))
opt_int(v) == IF v = None THEN None ELSE Some(int_of(v[1]))

FileName == "cl.txt"

\* the dict appended to rows for a matched line
match_row(ssn, cur_date, cur_stage, cur_section, m) ==
    [season |-> ssn,
     date |-> isoformat(cur_date[1]),
     time |-> m.time_str,
     stage |-> cur_stage,
     section |-> cur_section,
     home_team |-> strip_country(m.home_part),
     away_team |-> strip_country(m.away_part),
     home_goals |-> int_of(m.home_goals),
     away_goals |-> int_of(m.away_goals),
     ht_home |-> opt_int(m.ht_home),
     ht_away |-> opt_int(m.ht_away),
     has_penalty |-> IF m.extra # None THEN has_pen(m.extra[1]) ELSE FALSE,
     has_aet |-> IF m.extra # None THEN has_aet(m.extra[1]) ELSE FALSE,
     source_file |-> FileName]

\* which branch of the loop body a line (already rstripped) takes
is_blank(ln) == ln = <<>>
is_comment(ln) == ~is_blank(ln) /\ (CharAt(ln, 1) = "=" \/ CharAt(ln, 1) = "#")
is_section(ln) == ~is_blank(ln) /\ ~is_comment(ln) /\ CharAt(ln, 1) = SectionGlyph
is_date(ln) == ~is_blank(ln) /\ ~is_comment(ln) /\ ~is_section(ln) /\ date_match(ln).ok
is_rest(ln) == ~is_blank(ln) /\ ~is_comment(ln) /\ ~is_section(ln) /\ ~date_match(ln).ok

(***************************************************************************)
(* Inputs of parse_champions_league_txt_file: the lines the file can hold  *)
(* and the seasons.                                                        *)
(***************************************************************************)
MaxLines == 3

CLLines ==
    { <<>>,
      <<"#"," ","n","o","t","e">>,
      <<"»"," ","G","r","o","u","p"," ","A">>,
      <<"»"," ","R","o","u","n","d"," ","o","f"," ","1","6">>,
      <<"»"," ","Q","u","a","r","t","e","r","-","F","i","n","a","l","s">>,
      <<"»"," ","S","e","m","i","-","F","i","n","a","l","s"," ">>,
      <<"»"," ","F","i","n","a","l">>,
      <<"»"," ","P","l","a","y","o","f","f","s">>,
      <<" "," ","W","e","d"," ","S","e","p","/","1","4"," ","2","0","1","1">>,
      <<" "," ","T","u","e"," ","S","e","p","/","2","7">>,
      <<" "," ","S","a","t"," ","M","a","y","/","1","9">>,
      <<" "," ","W","e","d"," ","F","e","b","/","2","9">>,
      <<" "," ","T","h","u"," ","F","o","o","/","3">>,
      <<" "," "," "," ","2","0",".","4","5"," "," ","A","b"," ","(","E","N","G",")",
        " "," "," ","v"," ","C","d"," ","(","E","S","P",")"," "," ","1","-","1"," ",
        "(","0","-","0",")"," "," ","a",".","e",".","t","."," ","4","-","3"," ","p",
        "e","n",".">>,
      <<"M","a","t","c","h","d","a","y"," ","1">> }

Seasons ==
    { <<"2","0","1","0","-","1","1">>,
      <<"2","0","1","1","-","1","2">> }

\* for line in f: one action per branch of the loop body
\* the catalog lines by the branch of the loop body that takes them: the first test
\* that holds on the right-stripped line decides
CLBlankLines == {raw \in CLLines : is_blank(rstrip(raw))}
CLCommentLines == {raw \in CLLines : is_comment(rstrip(raw))}
CLSectionLines == {raw \in CLLines : is_section(rstrip(raw))}
CLDateLines == {raw \in CLLines : is_date(rstrip(raw))}
CLRestLines == {raw \in CLLines : is_rest(rstrip(raw))}
CLMatchLines == {raw \in CLRestLines : match_line(rstrip(raw)).ok}

CLBlank ==
    /\ pc = "scan"
    /\ Len(lines) < MaxLines
    /\ \E raw \in CLBlankLines : lines' = Append(lines, raw)
    /\ UNCHANGED <<pc, season, current_date, current_stage, current_section, rows,
                   blobVars, lineVars, wcVars>>

CLComment ==
    /\ pc = "scan"
    /\ Len(lines) < MaxLines
    /\ \E raw \in CLCommentLines : lines' = Append(lines, raw)
    /\ UNCHANGED <<pc, season, current_date, current_stage, current_section, rows,
                   blobVars, lineVars, wcVars>>

\* the mutant that forgets the date when a new section starts
CLSectionHeader_resets_date ==
    /\ pc = "scan"
    /\ Len(lines) < MaxLines
    /\ \E raw \in CLSectionLines : \E ln \in {rstrip(raw)} :
        /\ \E text \in {strip(remove_char(ln, SectionGlyph))} :
            /\ current_section' = Some(text)
            /\ current_stage' = Some(stage_of(text))
        /\ lines' = Append(lines, raw)
    /\ current_date' = None
    /\ UNCHANGED <<pc, season, rows, blobVars, lineVars, wcVars>>

CLSectionHeader ==
    /\ pc = "scan"
    /\ Len(lines) < MaxLines
    /\ \E raw \in CLSectionLines : \E ln \in {rstrip(raw)} :
        /\ \E text \in {strip(remove_char(ln, SectionGlyph))} :
            /\ current_section' = Some(text)
            /\ current_stage' = Some(stage_of(text))
        /\ lines' = Append(lines, raw)
    /\ UNCHANGED <<pc, season, current_date, rows, blobVars, lineVars, wcVars>>

CLDateIgnored ==
    /\ pc = "scan"
    /\ Len(lines) < MaxLines
    /\ \E raw \in CLDateLines : \E ln \in {rstrip(raw)} :
        /\ ~in_MONTH_MAP(date_match(ln).mon_str)
        /\ lines' = Append(lines, raw)
    /\ UNCHANGED <<pc, season, current_date, current_stage, current_section, rows,
                   blobVars, lineVars, wcVars>>

\* the mutant that keeps the first date it parsed
CLDateHeader_keeps_first ==
    /\ pc = "scan"
    /\ Len(lines) < MaxLines
    /\ \E raw \in CLDateLines : \E ln \in {rstrip(raw)} :
        /\ in_MONTH_MAP(date_match(ln).mon_str)
        /\ \E d \in {header_date(season, date_match(ln))} :
               /\ date_valid(d.year, d.month, d.day)
               /\ current_date' = IF current_date = None THEN Some(d) ELSE current_date
        /\ lines' = Append(lines, raw)
    /\ UNCHANGED <<pc, season, current_stage, current_section, rows,
                   blobVars, lineVars, wcVars>>

CLDateHeader ==
    /\ pc = "scan"
    /\ Len(lines) < MaxLines
    /\ \E raw \in CLDateLines : \E ln \in {rstrip(raw)} :
        /\ in_MONTH_MAP(date_match(ln).mon_str)
        /\ \E d \in {header_date(season, date_match(ln))} :
               /\ date_valid(d.year, d.month, d.day)
               /\ current_date' = Some(d)
        /\ lines' = Append(lines, raw)
    /\ UNCHANGED <<pc, season, current_stage, current_section, rows,
                   blobVars, lineVars, wcVars>>

\* dt.date(year, month, day) raises ValueError: the call ends without a result
CLDateError ==
    /\ pc = "scan"
    /\ Len(lines) < MaxLines
    /\ \E raw \in CLDateLines : \E ln \in {rstrip(raw)} :
        /\ in_MONTH_MAP(date_match(ln).mon_str)
        /\ \E d \in {header_date(season, date_match(ln))} :
               ~date_valid(d.year, d.month, d.day)
        /\ lines' = Append(lines, raw)
    /\ pc' = "raised"
    /\ UNCHANGED <<season, current_date, current_stage, current_section, rows,
                   blobVars, lineVars, wcVars>>

CLMatchLine ==
    /\ pc = "scan"
    /\ Len(lines) < MaxLines
    /\ \E raw \in CLRestLines : \E ln \in {rstrip(raw)} :
        /\ raw \in CLMatchLines
        /\ current_date # None
        /\ rows' = Append(rows, match_row(season, current_date, current_stage,
                                          current_section, match_line(ln)))
        /\ lines' = Append(lines, raw)
    /\ UNCHANGED <<pc, season, current_date, current_stage, current_section,
                   blobVars, lineVars, wcVars>>

CLNoRecord ==
    /\ pc = "scan"
    /\ Len(lines) < MaxLines
    /\ \E raw \in CLRestLines :
        /\ ~(raw \in CLMatchLines /\ current_date # None)
        /\ lines' = Append(lines, raw)
    /\ UNCHANGED <<pc, season, current_date, current_stage, current_section, rows,
                   blobVars, lineVars, wcVars>>

\* end of file: return pd.DataFrame(rows)
CLReturn ==
    /\ pc = "scan"
    /\ pc' = "done"
    /\ UNCHANGED <<clVars, blobVars, lineVars, wcVars>>

(***************************************************************************)
(* Inputs of parse_score_blob: texts put together from the pieces the      *)
(* source's examples are made of.                                          *)
(***************************************************************************)
MaxBlobToks == 4

BlobTokens ==
    { <<"4","-","2">>,
      <<"3","-","3">>,
      <<" ","p","e","n","."," ">>,
      <<"P","e","n">>,
      <<" ","a",".","e",".","t","."," ">>,
      <<"(">>,
      <<")">>,
      <<"x">> }

IdleBlob == blob = <<>> /\ out = EmptyScore
IdleLine == line = <<>> /\ row = None
IdleWC   == doc = <<>> /\ section_kind = "group" /\ pos = 0 /\ sec_label = None
            /\ wc_out = <<>>
IdleCL   == season = <<>> /\ lines = <<>> /\ current_date = None
            /\ current_stage = None /\ current_section = None /\ rows = <<>>

InitBlob ==
    /\ pc = "call"
    /\ blob \in {Cat(ts) : ts \in SeqsUpTo(BlobTokens, MaxBlobToks)}
    /\ out = EmptyScore
    /\ IdleLine /\ IdleWC /\ IdleCL

ParseScoreBlob ==
    /\ pc = "call"
    /\ out' = parse_score_blob(blob)
    /\ pc' = "done"
    /\ UNCHANGED <<blob, lineVars, wcVars, clVars>>

NextBlob == ParseScoreBlob

SpecBlob == InitBlob /\ [][NextBlob]_vars

(***************************************************************************)
(* Inputs of parse_match_line: a preamble followed by body pieces.         *)
(***************************************************************************)
MaxLineToks == 4

Preambles ==
    { <<"(","1","2",")"," ","T","h","u"," ","J","u","n","/","1","4"," ",
        "1","7",":","0","0"," ">>,
      <<"(","3",")"," "," ","F","r","i"," ","J","u","l","/","5"," ",
        "9",":","3","0"," "," ">>,
      <<"(","1",")"," ","T","h","u"," ","J","u","n","/","1","4"," ",
        "1","7","0","0"," ">> }

LineTokens ==
    { <<"A","b"," ">>,
      <<"2","-","1">>,
      <<" "," ","C","d">>,
      <<" ","E","f">>,
      <<" ","@"," ","S","t">>,
      <<","," ","C","i">>,
      <<" ","(","1","-","0",")">> }

InitLine ==
    /\ pc = "call"
    /\ line \in {p \o Cat(ts) : p \in Preambles, ts \in SeqsUpTo(LineTokens, MaxLineToks)}
    /\ row = None
    /\ IdleBlob /\ IdleWC /\ IdleCL

ParseMatchLine ==
    /\ pc = "call"
    /\ row' = parse_match_line(line)
    /\ pc' = "done"
    /\ UNCHANGED <<line, blobVars, wcVars, clVars>>

NextLine == ParseMatchLine

SpecLine == InitLine /\ [][NextLine]_vars

(***************************************************************************)
(* Inputs of parse_worldcup_txt: documents of a few lines.                 *)
(***************************************************************************)
MaxDocLines == 3

WCLines ==
    { <<>>,
      <<"G","r","o","u","p"," ","A">>,
      <<" "," ","G","r","o","u","p"," "," ","B"," "," ","(","x",")"," ">>,
      <<"G","r","o","u","p">>,
      <<"F","i","n","a","l">>,
      <<"R","o","u","n","d"," ","o","f"," ","1","6"," ">>,
      <<"(","1",")"," ","T","h","u"," ","J","u","n","/","1","2"," ",
        "1","7",":","0","0"," ","A","b"," ","2","-","1"," "," ","C","d",
        " ","@"," ","S","t">>,
      <<"(","2",")"," ","F","r","i"," ","J","u","n","/","1","3"," ",
        "1","3",":","0","0"," ","E","f"," ","0","-","0"," ","G","h",
        " ","@"," ","X","y",","," ","C","i">> }

InitWC ==
    /\ pc = "scan"
    /\ doc \in SeqsUpTo(WCLines, MaxDocLines)
    /\ section_kind \in {"group", "knockout"}
    /\ pos = 0
    /\ sec_label = None
    /\ wc_out = <<>>
    /\ IdleBlob /\ IdleLine /\ IdleCL

NextWC ==
    \/ WCBlank
    \/ WCGroupHeader
    \/ WCKnockoutHeader
    \/ WCMatchLine
    \/ WCOtherLine
    \/ WCReturn

SpecWC == InitWC /\ [][NextWC]_vars

Init ==
    /\ pc = "scan"
    /\ season \in Seasons
    /\ lines = <<>>
    /\ current_date = None
    /\ current_stage = None
    /\ current_section = None
    /\ rows = <<>>
    /\ IdleBlob /\ IdleLine /\ IdleWC

Next ==
    \/ CLBlank
    \/ CLComment
    \/ CLSectionHeader
    \/ CLDateIgnored
    \/ CLDateHeader
    \/ CLDateError
    \/ CLMatchLine
    \/ CLNoRecord
    \/ CLReturn

Spec == Init /\ [][Next]_vars

(***************************************************************************)
(* Properties of parse_score_blob (under SpecBlob)                         *)
(***************************************************************************)

\* what the finished call read from its argument
BlobWorkText == blob_text(strip(blob))
BlobPen == has_pen(BlobWorkText)
BlobAet == has_aet(BlobWorkText)
BlobPairs == blob_nums(BlobWorkText)

\* a (home, away) pair of the returned dict, None when both are unset
OutPair(h, a) == IF h = None /\ a = None THEN None ELSE <<h, a>>
OutFt  == OutPair(out.ft_home, out.ft_away)
OutAet == OutPair(out.aet_home, out.aet_away)
OutPen == OutPair(out.pen_home, out.pen_away)
AsPair(q) == << <<q[1]>>, <<q[2]>> >>

\* C3: the result follows from (has_pen, has_aet, pairs outside parentheses) by the
\* priority pen+2 pairs / aet+1 pair / 1 pair / nothing, a penalty marker with a
\* single pair falls through with that pair, and regulation is backfilled from
\* extra time and nothing else is.
C3_ScorePriority ==
    pc = "done" =>
        LET P == BlobPen
            A == BlobAet
            N == BlobPairs
        IN  /\ (P /\ Len(N) >= 2) =>
                    /\ OutPen = AsPair(N[1])
                    /\ OutAet = AsPair(N[2])
                    /\ OutFt = AsPair(N[2])
            /\ (~(P /\ Len(N) >= 2) /\ A /\ Len(N) >= 1) =>
                    /\ OutPen = None
                    /\ OutAet = AsPair(N[1])
                    /\ OutFt = AsPair(N[1])
            /\ (~(P /\ Len(N) >= 2) /\ ~A /\ Len(N) >= 1) =>
                    /\ OutPen = None
                    /\ OutAet = None
                    /\ OutFt = AsPair(N[1])
            /\ Len(N) = 0 =>
                    /\ OutPen = None
                    /\ OutAet = None
                    /\ OutFt = None

\* a penalty marker, no a.e.t. marker and exactly one pair: the pair is the regulation score
C3_Witness ==
    /\ pc = "done"
    /\ BlobPen /\ ~BlobAet
    /\ Len(BlobPairs) = 1
    /\ OutFt = AsPair(BlobPairs[1])

\* C4 as stated: with no number pair recognized, the three scores and half_time_raw
\* are all unset.  (The premise is taken at its narrowest: no pair anywhere in the text.)
C4_AllUnsetWithoutPair ==
    (pc = "done" /\ score_pair_finditer(blob, 1) = <<>>) =>
        /\ OutFt = None /\ OutAet = None /\ OutPen = None
        /\ out.ht_raw = None

\* C4 amended: with no number pair recognized the three scores are unset, and
\* half_time_raw is unset exactly when the text has no parenthesized group; otherwise
\* it is the trimmed inner text of the first group.
C4_ScoresUnsetWithoutPair ==
    (pc = "done" /\ BlobPairs = <<>>) =>
        /\ OutFt = None /\ OutAet = None /\ OutPen = None
        /\ (out.ht_raw = None) <=> (\A i \in 1..Len(blob) : ht_paren_end(blob, i) = 0)
        /\ \A i \in 1..Len(blob) :
              (ht_paren_end(blob, i) # 0 /\ \A j \in 1..(i - 1) : ht_paren_end(blob, j) = 0)
              => out.ht_raw = Some(strip(SubSeq(blob, i + 1, ht_paren_end(blob, i) - 2)))

\* no pair recognized, yet half_time_raw holds text that had blanks around it
C4_Witness ==
    /\ pc = "done"
    /\ BlobPairs = <<>>
    /\ out.ht_raw # None
    /\ \E i \in 1..Len(blob) : blob[i] = "(" /\ CharAt(blob, i + 1) = " "

(***************************************************************************)
(* Properties of parse_match_line (under SpecLine)                         *)
(***************************************************************************)

\* C5: a record returned by parse_match_line has a non-empty home and a non-empty
\* away team name.
C5_TeamsNonEmpty ==
    (pc = "done" /\ row # None) => (row[1].home # <<>> /\ row[1].away # <<>>)

(***************************************************************************)
(* Properties of parse_worldcup_txt (under SpecWC)                         *)
(***************************************************************************)

\* the n-th smallest element of a set of line numbers
NthOf(S, n) == CHOOSE k \in S : Cardinality({i \in S : i < k}) = n - 1

\* line k as the loop sees it, and what kind of line it is for the configured mode
WCSeen(k) == strip(doc[k])
WCIsHeader(k) ==
    IF section_kind = "group" THEN startswith(WCSeen(k), GroupPrefix)
    ELSE WCSeen(k) \in KnockoutRounds

\* the second whitespace-separated word of a group header
SecondWord(ln) ==
    LET a == SetMin({i \in 6..Len(ln) : ~IsSpace(ln[i])})
        b == SetMin({j \in a..Len(ln) : j = Len(ln) \/ IsSpace(ln[j + 1])})
    IN  SubSeq(ln, a, b)

\* the label the most recent header before line k stands for
WCLabelOf(k) ==
    IF section_kind = "group" THEN GroupPrefix \o SecondWord(WCSeen(k)) ELSE WCSeen(k)

\* the kind of every consumed line: a header, a match line, or neither
WCLineKinds ==
    [k \in 1..pos |->
        IF WCSeen(k) = <<>> THEN "blank"
        ELSE IF WCIsHeader(k) THEN "header"
        ELSE IF parse_match_line(WCSeen(k)) # None THEN "match"
        ELSE "other"]

\* C6: the records are those of the match lines, in line order (header and blank
\* lines give none), and each record's section is the label of the most recent
\* header of the configured mode before it, unset before any header.
C6_SectionFromLastHeader ==
    LET kind == WCLineKinds
        headers_before(k) == {j \in 1..(k - 1) : kind[j] = "header"}
        matches == {k \in DOMAIN kind : kind[k] = "match"}
    IN  /\ Len(wc_out) = Cardinality(matches)
        /\ \A n \in 1..Len(wc_out) :
              LET k == NthOf(matches, n)
                  m == parse_match_line(WCSeen(k))[1]
                  hs == headers_before(k)
              IN  /\ wc_out[n].section =
                        IF hs = {} THEN None ELSE Some(WCLabelOf(SetMax(hs)))
                  /\ \A f \in DOMAIN m : wc_out[n][f] = m[f]

\* a record before any header, then a group header written with extra blanks and
\* words, then a record under it
C6_Witness ==
    /\ pc = "done"
    /\ section_kind = "group"
    /\ Len(wc_out) = 2
    /\ wc_out[1].section = None
    /\ wc_out[2].section = Some(<<"G","r","o","u","p"," ","B">>)
    /\ wc_out[1].match_no # wc_out[2].match_no

(***************************************************************************)
(* Properties of parse_champions_league_txt_file (under Spec)              *)
(***************************************************************************)

\* line k as the loop sees it, and what kind of line it is
Seen(k) == rstrip(lines[k])
IsDateHeader(ln) == is_date(ln) /\ in_MONTH_MAP(date_match(ln).mon_str)
IsParsedDateHeader(ln) ==
    /\ IsDateHeader(ln)
    /\ LET d == header_date(season, date_match(ln))
       IN  date_valid(d.year, d.month, d.day)
IsMatchLine(ln) == is_rest(ln) /\ match_line(ln).ok

\* the kind of every consumed line: a parsed date header, a match line, or neither
LineKinds ==
    [k \in 1..Len(lines) |->
        IF lines[k] \in CLDateLines /\ IsParsedDateHeader(Seen(k)) THEN "date"
        ELSE IF lines[k] \in CLMatchLines THEN "match"
        ELSE "other"]

\* C1: the records are those of the match lines that follow some parsed date header,
\* in line order; a match line before any such header gives none; each record's date
\* is that of the most recent parsed date header before its line.
C1_DateFromLastHeader ==
    LET kind == LineKinds
        headers_before(k) == {j \in 1..(k - 1) : kind[j] = "date"}
        dated == {k \in DOMAIN kind : kind[k] = "match" /\ headers_before(k) # {}}
    IN  /\ Len(rows) = Cardinality(dated)
        /\ \A n \in 1..Len(rows) :
              LET j == SetMax(headers_before(NthOf(dated, n)))
              IN  rows[n].date = isoformat(header_date(season, date_match(Seen(j))))

\* two date headers with different dates, then a match line that takes the second
C1_Witness ==
    /\ Len(lines) = 3
    /\ IsParsedDateHeader(Seen(1))
    /\ IsParsedDateHeader(Seen(2))
    /\ header_date(season, date_match(Seen(1))) # header_date(season, date_match(Seen(2)))
    /\ IsMatchLine(Seen(3))
    /\ Len(rows) = 1

\* C2: the scan has no fatal outcome: it never ends in an exception.
C2_NoFatalError == pc # "raised"

StageTags ==
    {"Group Stage", "Round of 16", "Quarterfinals", "Semifinals", "Final", "Other"}

\* C7: every emitted record's stage is one of the six normalized tags.
C7_StageIsNormalized ==
    \A n \in 1..Len(rows) : rows[n].stage \in {Some(t) : t \in StageTags}

\* the line a step of the loop consumed
Consumed == Len(lines') = Len(lines) + 1
StepLine == rstrip(lines'[Len(lines')])

StageRules ==
    << <<K_Group, "Group Stage">>, <<K_Roundof, "Round of 16">>,
       <<K_Quarter, "Quarterfinals">>, <<K_Semi, "Semifinals">>,
       <<K_Final, "Final">> >>
FirstRuleStage(text) ==
    LET hit == {i \in DOMAIN StageRules : Contains(text, StageRules[i][1])}
    IN  IF hit = {} THEN "Other" ELSE StageRules[SetMin(hit)][2]

\* C9: a section header sets current_section to the trimmed header text and, on the
\* same step, current_stage to the tag of the first keyword rule the text contains.
C9_StagePriority ==
    [][ Consumed =>
            \A ln \in {StepLine} :
                is_section(ln) =>
                    \A text \in {strip(remove_char(ln, SectionGlyph))} :
                        /\ current_section' = Some(text)
                        /\ current_stage' = Some(FirstRuleStage(text)) ]_vars

\* a header that holds both "Semi" and "Final" was classified Semifinals
C9_Witness ==
    /\ current_section # None
    /\ Contains(current_section[1], K_Semi)
    /\ Contains(current_section[1], K_Final)
    /\ current_stage = Some("Semifinals")

\* C10: a section header leaves current_date alone, a date header with a recognized
\* month leaves current_section and current_stage alone, and every other line, and
\* the end of the scan, leave all three alone.
C10_OnlyHeadersChangeState ==
    [][ /\ ~Consumed => UNCHANGED <<current_date, current_stage, current_section>>
        /\ Consumed =>
            \A ln \in {StepLine} :
                /\ is_section(ln) => current_date' = current_date
                /\ IsDateHeader(ln) => UNCHANGED <<current_stage, current_section>>
                /\ (~is_section(ln) /\ ~IsDateHeader(ln)) =>
                        UNCHANGED <<current_date, current_stage, current_section>> ]_vars

\* a section header came after a date header and the date is still there
C10_Witness ==
    /\ Len(lines) >= 2
    /\ IsParsedDateHeader(Seen(Len(lines) - 1))
    /\ is_section(Seen(Len(lines)))
    /\ current_date = Some(header_date(season, date_match(Seen(Len(lines) - 1))))
    /\ current_section # None

====
